---- MODULE Spec2Model ----
(***************************************************************************)
(* Model of pts/collector/DataCollector.py: the GitHub URL recognizer      *)
(* (RE_GITHUB_URL, parse_github_url, parse_repo_name), the dependency      *)
(* version gate (check_junit) and the collection loops (collect_projects,  *)
(* collect_project, download_projects) with the change_dir context manager.*)
(*                                                                         *)
(* Python strings are sequences of one-character strings, so that          *)
(* slicing, splitting and regular-expression matching are computed.        *)
(***************************************************************************)
EXTENDS Integers, Sequences, FiniteSets, TLC

VARIABLES
    \* --- URL recognizer
    owner, repo,        \* the owner and repository name the input is built from
    project_name,       \* f"{user}_{repo}"
    github_url,         \* the string handed to parse_github_url
    user_repo,          \* what parse_github_url returned
    pom_xml_url,        \* the build-descriptor URL collect_projects probes
    upc,                \* position in the URL pipeline
    \* --- dependency version gate
    pom,                \* the build descriptor handed to check_junit
    junit_result,       \* what check_junit returned, or the exception it raised
    ppc,                \* "input" before the call, "done" after it
    \* --- DataCollector and its loops
    op,                         \* the operation running, or the last one run
    pc,                         \* the position in it, "idle" between calls
    calls,                      \* operations started so far
    skip_collected,             \* collect_projects' argument
    project_urls,               \* collect_projects: the slice being worked on
    project_list,               \* download_projects: the keys of its argument
    pi,                         \* entries of the loop taken so far
    project_url,                \* the local variable of that name in either loop
    cur_name,                   \* project_name (collect_project) / project
    collected_projects_list,    \* self.collected_projects_list
    clone,                      \* repos_downloads_dir / <name>: what is there
    results_dirs,               \* the names with a repos_results_dir / <name>
    results_files,              \* the files in those directories
    collected_file,             \* results_dir / "collected-projects.txt"
    start_dir,                  \* the working directory before the first call
    cwd,                        \* the process working directory
    dir_stack,                  \* original_dir of every change_dir block open
    escaped,                    \* the exception that left the operation
    interrupted,                \* the operation ended on a KeyboardInterrupt
    attempts,                   \* how the entry in hand ended, and whether an
                                \* earlier entry of this call raised
    facts,                      \* what the running collect_project has done so far
    collected_facts             \* facts at each append to collected_projects_list

urlVars == <<owner, repo, project_name, github_url, user_repo, pom_xml_url, upc>>

pomVars == <<pom, junit_result, ppc>>

fsVars == <<clone, results_dirs, results_files>>

dirVars == <<start_dir, cwd, dir_stack>>

listVars == <<collected_projects_list, collected_facts>>

loopVars == <<skip_collected, project_urls, project_list>>

colVars == <<op, pc, calls, loopVars, pi, project_url, cur_name, listVars, fsVars,
             collected_file, dirVars, escaped, interrupted, attempts, facts>>

vars == <<urlVars, pomVars, colVars>>

----------------------------------------------------------------------------
(* Bounds *)

\* longest owner / repository name, counted in tokens of NameTok
MaxLen == 2

\* most dependency elements of a build descriptor
MaxDeps == 2

\* longest version text drawn from VerChar
MaxVerLen == 2

\* most lines of the URL file, most keys of project_list
MaxEntries == 2

\* most operations started on one DataCollector
MaxCalls == 2

----------------------------------------------------------------------------
(* Strings *)

\* Python's None
None == <<>>

\* a value that has not been computed yet
Unset == <<"?">>

\* "https://github.com/"
GH == <<"h","t","t","p","s",":","/","/","g","i","t","h","u","b",".","c","o","m","/">>

\* "https://githubxcom/" : differs from GH in the character the pattern escapes
GHX == <<"h","t","t","p","s",":","/","/","g","i","t","h","u","b","x","c","o","m","/">>

\* "https://example.com/"
EX == <<"h","t","t","p","s",":","/","/","e","x","a","m","p","l","e",".","c","o","m","/">>

\* ".git"
DotGit == <<".","g","i","t">>

\* "/blob/master/pom.xml"
BlobMasterPom == <<"/","b","l","o","b","/","m","a","s","t","e","r","/","p","o","m",".","x","m","l">>

\* the line terminator, which the pattern's "." does not match
NL == "\n"

\* s[i:] of Python, i counted from 0
From(s, i) == SubSeq(s, i + 1, Len(s))

\* s[:i] of Python for 0 <= i
Upto(s, i) == SubSeq(s, 1, i)

\* s[:-n] of Python for n > 0: everything but the last n characters
\* (the empty string when s has no more than n characters)
DropLast(s, n) == IF Len(s) > n THEN SubSeq(s, 1, Len(s) - n) ELSE <<>>

StartsWith(s, p) == Len(s) >= Len(p) /\ SubSeq(s, 1, Len(p)) = p

EndsWith(s, p) == Len(s) >= Len(p) /\ SubSeq(s, Len(s) - Len(p) + 1, Len(s)) = p

Has(s, c) == \E i \in 1..Len(s) : s[i] = c

\* position of the first c in s, 0 when there is none
RECURSIVE IndexOf(_, _, _)
IndexOf(s, c, i) ==
    IF i > Len(s) THEN 0
    ELSE IF s[i] = c THEN i
    ELSE IndexOf(s, c, i + 1)

\* str.split(sep) for a one-character separator: the list of pieces
RECURSIVE Split(_, _)
Split(s, sep) ==
    LET i == IndexOf(s, sep, 1)
    IN  IF i = 0 THEN <<s>>
        ELSE <<Upto(s, i - 1)>> \o Split(From(s, i), sep)

Min(S) == CHOOSE x \in S : \A y \in S : x <= y
Max(S) == CHOOSE x \in S : \A y \in S : x >= y

\* the outcome of a call: a value, or the exception it raised
Ok(v) == [exc |-> "none", val |-> v]
Raise(e) == [exc |-> e, val |-> <<>>]

----------------------------------------------------------------------------
(* RE_GITHUB_URL and the two parsers *)

\* the pattern with a greedy repo group (.+ instead of .+?)
Mutant_RE_GITHUB_URL_greedy(s) ==
    IF ~StartsWith(s, GH) THEN None
    ELSE
      LET t == From(s, Len(GH))
          j == IndexOf(t, "/", 1) - 1
          r == From(t, j + 1)
      IN  IF j < 1 \/ Len(r) < 1 \/ Has(r, NL) THEN None
          ELSE [user |-> Upto(t, j), repo |-> r]

\* RE_GITHUB_URL.fullmatch(s):
\*   https://github\.com/(?P<user>[^/]+)/(?P<repo>.+?)(\.git)?
\* The result is None or the record of the named groups.  The matcher tries
\* the greedy user group longest first and the lazy repo group shortest
\* first; the whole string has to be consumed.
RE_GITHUB_URL_fullmatch(s) ==
    IF ~StartsWith(s, GH) THEN None
    ELSE
      LET t == From(s, Len(GH))
          \* [^/]+ followed by a literal "/"
          UserOk(j) == /\ j >= 1
                       /\ j < Len(t)
                       /\ ~Has(Upto(t, j), "/")
                       /\ t[j + 1] = "/"
          \* .+? followed by an optional ".git" and the end of the string
          RepoOk(j, k) == LET r == From(t, j + 1)
                          IN  /\ k >= 1
                              /\ k <= Len(r)
                              /\ ~Has(Upto(r, k), NL)
                              /\ From(r, k) \in {<<>>, DotGit}
          Js == {j \in 1..Len(t) : UserOk(j) /\ \E k \in 1..Len(t) : RepoOk(j, k)}
      IN  IF Js = {} THEN None
          ELSE LET j == Max(Js)
                   k == Min({kk \in 1..Len(t) : RepoOk(j, kk)})
               IN  [user |-> Upto(t, j), repo |-> Upto(From(t, j + 1), k)]

\* DataCollector.parse_github_url
parse_github_url(url) ==
    LET m == RE_GITHUB_URL_fullmatch(url)
    IN  IF m = None THEN None ELSE <<m.user, m.repo>>

\* parse_repo_name with the two indices exchanged
Mutant_parse_repo_name_swapped(name) ==
    LET parts == Split(name, "_")
    IN  IF Len(parts) < 2 THEN Raise("IndexError")
        ELSE Ok(GH \o parts[2] \o <<"/">> \o parts[1] \o DotGit)

\* DataCollector.parse_repo_name: project_name.split('_')[0] and [1]
parse_repo_name(name) ==
    LET parts == Split(name, "_")
    IN  IF Len(parts) < 2 THEN Raise("IndexError")
        ELSE Ok(GH \o parts[1] \o <<"/">> \o parts[2] \o DotGit)

\* collect_projects, line 171: project_url[:-len(".git")] + "/blob/master/pom.xml"
PomXmlUrlOf(url) == DropLast(url, Len(DotGit)) \o BlobMasterPom

----------------------------------------------------------------------------
(* Inputs of the URL recognizer *)

\* the pieces owner and repository names are built from
NameTok == {<<"a">>, <<"/">>, <<".">>, <<"_">>, <<NL>>, DotGit}

RECURSIVE TokStrings(_)
TokStrings(n) ==
    IF n = 0 THEN {<<>>}
    ELSE LET S == TokStrings(n - 1)
         IN  S \cup {s \o t : s \in S, t \in NameTok}

Names == TokStrings(MaxLen)

Hosts == {GH, GHX, EX}

Suffixes == {<<>>, DotGit}

----------------------------------------------------------------------------
(* The collector: values of its state *)

\* a local variable no assignment has reached yet
NotBound == <<"unbound">>

\* repos_downloads_dir / <name> does not exist
NoDir == "nodir"

\* the directory is there and holds no pom.xml (a clone that was cut short)
NoPom == "nopom"

\* directories the process can be in
Home == "home"
ReposDownloadsDir == "repos_downloads_dir"
DownloadsDirOf(name) == <<"repos_downloads_dir", name>>

ProjectJson == "project.json"
CollectorConfigJson == "collector-config.json"

\* what collect_project has done for the project in hand
NoFacts == [clone_exists |-> FALSE, junit |-> "unset", project_json |-> FALSE,
            config_json |-> FALSE, java_rc0 |-> FALSE]

\* collected-projects.txt has not been written
NoFile == <<Unset>>

\* no entry taken yet
NoAttempts == [last |-> "none", failed_earlier |-> FALSE]

\* the exceptions a step can raise
Exceptions == {"IndexError", "URLError", "RuntimeError", "TimeoutException",
               "ParseError", "AttributeError", "ValueError", "FileNotFoundError"}

\* the loop takes its next entry
NextAttempt(a) ==
    [last |-> "running", failed_earlier |-> a.failed_earlier \/ a.last \in Exceptions]

\* a DataCollector right after __init__ (lines 41-44), no operation started
InitCollector ==
    /\ op = "none"
    /\ pc = "idle"
    /\ calls = 0
    /\ skip_collected = FALSE
    /\ project_urls = <<>>
    /\ project_list = <<>>
    /\ pi = 0
    /\ project_url = NotBound
    /\ cur_name = <<>>
    /\ collected_projects_list = <<>>
    /\ collected_facts = <<>>
    /\ facts = NoFacts
    /\ collected_file = NoFile
    /\ dir_stack = <<>>
    /\ escaped = "none"
    /\ interrupted = FALSE
    /\ attempts = NoAttempts

\* the collector is not part of the run
IdleCollector ==
    /\ InitCollector
    /\ clone = <<>>
    /\ results_dirs = {}
    /\ results_files = {}
    /\ start_dir = Home
    /\ cwd = Home

----------------------------------------------------------------------------
(* The URL pipeline *)

\* the URL pipeline is not part of the run
IdleUrl ==
    /\ owner = <<>> /\ repo = <<>>
    /\ project_name = Unset /\ github_url = Unset
    /\ user_repo = Unset /\ pom_xml_url = Unset
    /\ upc = "idle"

\* the version gate is not part of the run
IdlePom ==
    /\ pom = [wellformed |-> FALSE, deps |-> <<>>]
    /\ junit_result = "unset"
    /\ ppc = "idle"

InitUrl ==
    /\ IdlePom
    /\ IdleCollector
    /\ owner \in Names
    /\ repo \in Names
    /\ project_name = Unset
    /\ github_url = Unset
    /\ user_repo = Unset
    /\ pom_xml_url = Unset
    /\ upc = "input"

\* f"{user}_{repo}" (collect_projects line 160, get_github_top_repos line 298)
FormatProjectName ==
    /\ upc = "input"
    /\ project_name' = owner \o <<"_">> \o repo
    /\ upc' = "named"
    /\ UNCHANGED <<owner, repo, github_url, user_repo, pom_xml_url>>
    /\ UNCHANGED <<pomVars, colVars>>

\* download_projects line 112: a key of project_list, as the caller wrote it
ReadProjectName ==
    /\ upc = "input"
    /\ project_name' = owner
    /\ upc' = "named"
    /\ UNCHANGED <<owner, repo, github_url, user_repo, pom_xml_url>>
    /\ UNCHANGED <<pomVars, colVars>>

\* download_projects line 114: project_url = self.parse_repo_name(project)
ParseRepoName ==
    /\ upc = "named"
    /\ LET r == parse_repo_name(project_name)
       IN  IF r.exc = "none"
           THEN github_url' = r.val /\ upc' = "url"
           ELSE github_url' = Unset /\ upc' = "raised"
    /\ UNCHANGED <<owner, repo, project_name, user_repo, pom_xml_url>>
    /\ UNCHANGED <<pomVars, colVars>>

\* collect_projects line 150: one line of the URL file
ReadProjectUrl ==
    /\ upc = "input"
    /\ \E h \in Hosts, sfx \in Suffixes :
          github_url' = h \o owner \o <<"/">> \o repo \o sfx
    /\ upc' = "url"
    /\ UNCHANGED <<owner, repo, project_name, user_repo, pom_xml_url>>
    /\ UNCHANGED <<pomVars, colVars>>

\* collect_projects line 154: user_repo = self.parse_github_url(project_url)
ParseGithubUrl ==
    /\ upc = "url"
    /\ user_repo' = parse_github_url(github_url)
    /\ upc' = "parsed"
    /\ UNCHANGED <<owner, repo, project_name, github_url, pom_xml_url>>
    /\ UNCHANGED <<pomVars, colVars>>

\* collect_projects lines 155-171: only an accepted URL reaches line 171
BuildPomXmlUrl ==
    /\ upc = "parsed"
    /\ user_repo # None
    /\ pom_xml_url' = PomXmlUrlOf(github_url)
    /\ upc' = "pom"
    /\ UNCHANGED <<owner, repo, project_name, github_url, user_repo>>
    /\ UNCHANGED <<pomVars, colVars>>

NextUrl ==
    \/ FormatProjectName
    \/ ReadProjectName
    \/ ParseRepoName
    \/ ReadProjectUrl
    \/ ParseGithubUrl
    \/ BuildPomXmlUrl

SpecUrl == InitUrl /\ [][NextUrl]_vars

----------------------------------------------------------------------------
(* The dependency version gate: REQUIREMENTS and check_junit *)

\* d.find(...) returned None: the child element is not there
AbsentElem == <<"absent">>

\* the child element is there and holds no text (its .text is None)
NoText == <<"notext">>

Digits == {"0", "1", "2", "3", "4", "5", "6", "7", "8", "9"}

DigitVal(c) ==
    CASE c = "0" -> 0 [] c = "1" -> 1 [] c = "2" -> 2 [] c = "3" -> 3
      [] c = "4" -> 4 [] c = "5" -> 5 [] c = "6" -> 6 [] c = "7" -> 7
      [] c = "8" -> 8 [] c = "9" -> 9

RECURSIVE DecimalValue(_, _)
DecimalValue(s, acc) ==
    IF s = <<>> THEN acc
    ELSE DecimalValue(Tail(s), 10 * acc + DigitVal(Head(s)))

\* int(v) on a string of digits, "." and letters: the decimal value, or
\* ValueError when v is empty or holds a character that is no digit
int(v) ==
    IF v = <<>> \/ \E i \in 1..Len(v) : v[i] \notin Digits
    THEN Raise("ValueError")
    ELSE Ok(DecimalValue(v, 0))

\* REQUIREMENTS.keys()
Junit == <<"j", "u", "n", "i", "t">>

REQUIREMENTS_keys == {Junit}

\* "hamcrest-core", an artifact REQUIREMENTS has no key for
Hamcrest == <<"h", "a", "m", "c", "r", "e", "s", "t", "-", "c", "o", "r", "e">>

\* the major version REQUIREMENTS["junit"] asks for
JunitMajor == 4

\* REQUIREMENTS[artifact_id](version): "True", "False" or the exception
REQUIREMENTS(artifact_id, version) ==
    LET n == int(version)
    IN  IF n.exc # "none" THEN n.exc
        ELSE IF n.val = JunitMajor THEN "True" ELSE "False"

\* the loop of check_junit that goes on to the next dependency when the
\* predicate of a matching one fails (no "else: return False")
RECURSIVE Mutant_check_deps_any(_, _)
Mutant_check_deps_any(deps, i) ==
    IF i > Len(deps) THEN "False"
    ELSE LET d == deps[i]
         IN  IF d.artifactId = AbsentElem THEN "AttributeError"
             ELSE IF d.artifactId \in REQUIREMENTS_keys
             THEN IF d.version \in {AbsentElem, NoText} THEN "AttributeError"
                  ELSE LET r == REQUIREMENTS(d.artifactId, Split(d.version, ".")[1])
                       IN  IF r = "False" THEN Mutant_check_deps_any(deps, i + 1)
                           ELSE r
             ELSE Mutant_check_deps_any(deps, i + 1)

\* the loop of check_junit with defensive handling of a missing child: the
\* dependency is skipped
RECURSIVE Mutant_check_deps_lenient(_, _)
Mutant_check_deps_lenient(deps, i) ==
    IF i > Len(deps) THEN "False"
    ELSE LET d == deps[i]
         IN  IF d.artifactId = AbsentElem THEN Mutant_check_deps_lenient(deps, i + 1)
             ELSE IF d.artifactId \in REQUIREMENTS_keys
             THEN IF d.version \in {AbsentElem, NoText}
                  THEN Mutant_check_deps_lenient(deps, i + 1)
                  ELSE REQUIREMENTS(d.artifactId, Split(d.version, ".")[1])
             ELSE Mutant_check_deps_lenient(deps, i + 1)

\* check_junit, lines 250-258: the loop over deps from the i-th on
RECURSIVE check_deps(_, _)
check_deps(deps, i) ==
    IF i > Len(deps) THEN "False"
    ELSE LET d == deps[i]
         IN  \* d.find("xmlns:artifactId").text
             IF d.artifactId = AbsentElem THEN "AttributeError"
             ELSE IF d.artifactId \in REQUIREMENTS_keys
             THEN \* d.find("xmlns:version").text.split(".")[0]
                  IF d.version \in {AbsentElem, NoText} THEN "AttributeError"
                  ELSE REQUIREMENTS(d.artifactId, Split(d.version, ".")[1])
             ELSE check_deps(deps, i + 1)

\* DataCollector.check_junit: ElementTree.parse raises ParseError on a
\* document that is not well-formed XML
check_junit(p) ==
    IF ~p.wellformed THEN "ParseError" ELSE check_deps(p.deps, 1)

----------------------------------------------------------------------------
(* Inputs of the version gate *)

VerChar == {"4", "0", "."}

RECURSIVE CharStrings(_, _)
CharStrings(C, n) ==
    IF n = 0 THEN {<<>>}
    ELSE LET S == CharStrings(C, n - 1)
         IN  S \cup {s \o <<c>> : s \in S, c \in C}

\* "4.13", "3.8" and "x.4"
ExampleVersions == {<<"4", ".", "1", "3">>, <<"3", ".", "8">>, <<"x", ".", "4">>}

\* the text of a version element is never the empty string
VersionTexts == (CharStrings(VerChar, MaxVerLen) \ {<<>>}) \cup ExampleVersions

\* a dependency that matches a key, with every version; an unrelated one, one
\* without text and one without the artifactId child, with or without version
Dependencies ==
    [artifactId : {Junit}, version : VersionTexts \cup {AbsentElem, NoText}]
    \cup [artifactId : {Hamcrest, NoText, AbsentElem},
          version : {<<"4">>, AbsentElem}]

RECURSIVE DepLists(_)
DepLists(n) ==
    IF n = 0 THEN {<<>>}
    ELSE LET S == DepLists(n - 1)
         IN  S \cup {Append(l, d) : l \in S, d \in Dependencies}

Poms ==
    {[wellformed |-> FALSE, deps |-> <<>>]}
    \cup {[wellformed |-> TRUE, deps |-> l] : l \in DepLists(MaxDeps)}

InitPom ==
    /\ IdleUrl
    /\ IdleCollector
    /\ pom \in Poms
    /\ junit_result = "unset"
    /\ ppc = "input"

\* collect_project line 201: self.check_junit(downloads_dir / "pom.xml")
CheckJunit ==
    /\ ppc = "input"
    /\ junit_result' = check_junit(pom)
    /\ ppc' = "done"
    /\ UNCHANGED pom
    /\ UNCHANGED <<urlVars, colVars>>

NextPom == CheckJunit

SpecPom == InitPom /\ [][NextPom]_vars

----------------------------------------------------------------------------
(* The collector: inputs and environment *)

\* "a_b", the project of https://github.com/a/b
N_ab == <<"a", "_", "b">>

\* "ab": a project name str.split('_') cannot split in two
N_nosplit == <<"a", "b">>

U_ab_git == GH \o <<"a", "/", "b">> \o DotGit
U_other_host == EX \o <<"a", "/", "b">> \o DotGit

\* lines the URL file may hold
UrlLines == {U_ab_git, U_other_host}

\* keys project_list may hold
DownloadNames == {N_ab, N_nosplit}

\* the names a directory is ever made for
ProjectNames == {N_ab}

RECURSIVE ListsOver(_, _)
ListsOver(S, n) ==
    IF n = 0 THEN {<<>>}
    ELSE LET L == ListsOver(S, n - 1)
         IN  L \cup {Append(l, x) : l \in L, x \in S}

Range(f) == {f[i] : i \in DOMAIN f}

UrlFiles == ListsOver(UrlLines, MaxEntries)

\* a dict has every key once
DownloadLists ==
    {l \in ListsOver(DownloadNames, MaxEntries) : Cardinality(Range(l)) = Len(l)}

\* the pom.xml a clone can hold: junit 4.13 after an unrelated dependency,
\* junit 3.8, a document that is not well-formed
ClonePoms == {"junit4", "junit3", "broken"}

PomOf(c) ==
    CASE c = "junit4" ->
            [wellformed |-> TRUE,
             deps |-> <<[artifactId |-> Hamcrest, version |-> <<"4">>],
                        [artifactId |-> Junit, version |-> <<"4", ".", "1", "3">>]>>]
      [] c = "junit3" ->
            [wellformed |-> TRUE,
             deps |-> <<[artifactId |-> Junit, version |-> <<"3", ".", "8">>]>>]
      [] c = "broken" -> [wellformed |-> FALSE, deps |-> <<>>]

\* check_junit(downloads_dir / "pom.xml") on what the clone holds
ReadPom(c) == IF c = NoPom THEN "FileNotFoundError" ELSE check_junit(PomOf(c))

\* urlopen: it answers, it answers with an HTTP error, the host is not reached
UrlopenOutcomes == {"ok", "HTTPError", "URLError"}

\* what a working tree can hold: one of the pom.xml above, or none
WorkingTrees == ClonePoms \cup {NoPom}

\* git clone under time_limit(300) and expected_return_code=0: it succeeds and
\* leaves a working tree, or it raises and leaves nothing or a partial tree
CloneOutcomes ==
    [exc : {"none"}, left : WorkingTrees]
    \cup [exc : {"RuntimeError", "TimeoutException"}, left : {NoDir, NoPom}]

\* BashUtils.run(..., expected_return_code=0): return code 0 or not
ReturnCodes == {0, 1}

----------------------------------------------------------------------------
(* change_dir *)

\* change_dir without try/finally: an exception in the block skips the chdir back
Mutant_change_dir_exit_no_finally(original_dir, current, exceptional) ==
    IF exceptional THEN current ELSE original_dir

\* change_dir lines 34-35: finally: os.chdir(original_dir), whether the block
\* ended normally or by an exception
change_dir_exit(original_dir, current, exceptional) == original_dir

\* an exception leaving every open change_dir block, innermost first
RECURSIVE Unwind(_, _)
Unwind(stack, current) ==
    IF stack = <<>> THEN current
    ELSE Unwind(SubSeq(stack, 1, Len(stack) - 1),
                change_dir_exit(stack[Len(stack)], current, TRUE))

Front(stack) == SubSeq(stack, 1, Len(stack) - 1)

\* with change_dir(destination): lines 30-33
EnterDir(destination) ==
    /\ dir_stack' = Append(dir_stack, cwd)
    /\ cwd' = destination
    /\ UNCHANGED start_dir

\* the block ends normally
LeaveDir ==
    /\ cwd' = change_dir_exit(dir_stack[Len(dir_stack)], cwd, FALSE)
    /\ dir_stack' = Front(dir_stack)
    /\ UNCHANGED start_dir

\* the outcome of the entry in hand
Settled(outcome) == [attempts EXCEPT !.last = outcome]

----------------------------------------------------------------------------
(* collect_projects and collect_project *)

\* project_urls[beg:beg + cnt]
Slice(lines, beg, cnt) ==
    SubSeq(lines, beg + 1, IF beg + cnt < Len(lines) THEN beg + cnt ELSE Len(lines))

\* DataCollector.is_project_collected
is_project_collected(name, url) ==
    name \in Range(collected_projects_list) \/ url \in Range(collected_projects_list)

\* an except clause that ends the loop on every exception
Mutant_collect_projects_except_break(exc) == "dump"

\* collect_projects lines 179-183: where the loop goes after an exception
collect_projects_except(exc) ==
    IF exc = "KeyboardInterrupt" THEN "dump" ELSE "loop"

\* an exception raised while the entry in hand is handled
CollectRaise(exc) ==
    /\ cwd' = Unwind(dir_stack, cwd)
    /\ dir_stack' = <<>>
    /\ attempts' = Settled(exc)
    /\ pc' = collect_projects_except(exc)
    /\ interrupted' = (exc = "KeyboardInterrupt")
    /\ UNCHANGED <<start_dir, escaped>>

\* every slice of every URL file: project_urls after line 148
UrlSlices == {Slice(lines, beg, cnt) : lines \in UrlFiles, beg \in 0..1, cnt \in 0..MaxEntries}

\* lines 141-148
StartCollectProjects ==
    /\ pc = "idle"
    /\ calls < MaxCalls
    /\ project_urls' \in UrlSlices
    /\ skip_collected' \in BOOLEAN
    /\ op' = "collect_projects"
    /\ pc' = "loop"
    /\ calls' = calls + 1
    /\ pi' = 0
    \* the arguments and locals of the call before are gone
    /\ project_list' = <<>>
    /\ project_url' = NotBound
    /\ cur_name' = <<>>
    /\ attempts' = NoAttempts
    /\ escaped' = "none"
    /\ interrupted' = FALSE
    /\ UNCHANGED <<listVars, fsVars, collected_file, dirVars, facts>>
    /\ UNCHANGED <<urlVars, pomVars>>

\* line 150: the for statement takes the next URL, or the loop is over
CollectProjectsNext ==
    /\ op = "collect_projects"
    /\ pc = "loop"
    /\ IF pi < Len(project_urls)
       THEN /\ pi' = pi + 1
            /\ project_url' = project_urls[pi + 1]
            /\ attempts' = NextAttempt(attempts)
            /\ pc' = "filter"
       ELSE /\ pc' = "dump"
            /\ UNCHANGED <<pi, project_url, attempts>>
    /\ UNCHANGED <<op, calls, loopVars, cur_name, listVars, fsVars, collected_file,
                   dirVars, escaped, interrupted, facts>>
    /\ UNCHANGED <<urlVars, pomVars>>

\* lines 154-176: what becomes of the URL before collect_project is called
FilterOutcome(url, reach, probe) ==
    LET ur == parse_github_url(url)
    IN  IF ur = None THEN "invalid"
        ELSE IF skip_collected /\ is_project_collected(ur[1] \o <<"_">> \o ur[2], url)
        THEN "already collected"
        ELSE IF reach = "HTTPError" THEN "unavailable"
        ELSE IF reach # "ok" THEN reach
        ELSE IF probe = "HTTPError" THEN "not maven"
        ELSE IF probe # "ok" THEN probe
        ELSE "collect"

CollectProjectsFilter ==
    /\ op = "collect_projects"
    /\ pc = "filter"
    /\ \E reach \in UrlopenOutcomes, probe \in UrlopenOutcomes :
          LET o == FilterOutcome(project_url, reach, probe)
              ur == parse_github_url(project_url)
          IN  IF o = "collect"
              THEN /\ cur_name' = ur[1] \o <<"_">> \o ur[2]
                   /\ pc' = "cp_begin"
                   /\ UNCHANGED <<attempts, interrupted, dirVars, escaped>>
              ELSE IF o = "URLError"
              THEN /\ CollectRaise(o)
                   /\ UNCHANGED cur_name
              ELSE \* continue
                   /\ attempts' = Settled(o)
                   /\ pc' = "loop"
                   /\ UNCHANGED <<cur_name, interrupted, dirVars, escaped>>
    /\ UNCHANGED <<op, calls, loopVars, pi, project_url, listVars, fsVars,
                   collected_file, facts>>
    /\ UNCHANGED <<urlVars, pomVars>>

\* collect_project lines 188-194 (the collector jar that require_collector
\* asks for is there)
CP_Begin ==
    /\ op = "collect_projects"
    /\ pc = "cp_begin"
    /\ results_dirs' = results_dirs \cup {cur_name}
    /\ results_files' = {f \in results_files : f[1] # cur_name}
    /\ facts' = NoFacts
    /\ pc' = "cp_enter_downloads"
    /\ UNCHANGED <<op, calls, loopVars, pi, project_url, cur_name, listVars, clone,
                   collected_file, dirVars, escaped, interrupted, attempts>>
    /\ UNCHANGED <<urlVars, pomVars>>

\* lines 196-197
CP_EnterDownloads ==
    /\ op = "collect_projects"
    /\ pc = "cp_enter_downloads"
    /\ IF clone[cur_name] = NoDir
       THEN EnterDir(ReposDownloadsDir) /\ pc' = "cp_clone"
       ELSE UNCHANGED dirVars /\ pc' = "cp_junit"
    /\ UNCHANGED <<op, calls, loopVars, pi, project_url, cur_name, listVars, fsVars,
                   collected_file, escaped, interrupted, attempts, facts>>
    /\ UNCHANGED <<urlVars, pomVars>>

\* lines 198-199
CP_Clone ==
    /\ op = "collect_projects"
    /\ pc = "cp_clone"
    /\ \E out \in CloneOutcomes :
          /\ clone' = [clone EXCEPT ![cur_name] = out.left]
          /\ IF out.exc = "none"
             THEN /\ LeaveDir
                  /\ pc' = "cp_junit"
                  /\ UNCHANGED <<attempts, interrupted, escaped>>
             ELSE CollectRaise(out.exc)
    /\ UNCHANGED <<op, calls, loopVars, pi, project_url, cur_name, listVars,
                   results_dirs, results_files, collected_file, facts>>
    /\ UNCHANGED <<urlVars, pomVars>>

\* lines 201-205
CP_CheckJunit ==
    /\ op = "collect_projects"
    /\ pc = "cp_junit"
    /\ LET r == ReadPom(clone[cur_name])
       IN  /\ facts' = IF r = "True"
                       THEN [facts EXCEPT !.clone_exists = (clone[cur_name] # NoDir),
                                          !.junit = r]
                       ELSE NoFacts
           /\ IF r = "True"
              THEN /\ pc' = "cp_enter_project"
                   /\ UNCHANGED <<fsVars, attempts, interrupted, dirVars, escaped>>
              ELSE IF r = "False"
              THEN /\ clone' = [clone EXCEPT ![cur_name] = NoDir]
                   /\ results_dirs' = results_dirs \ {cur_name}
                   /\ results_files' = {f \in results_files : f[1] # cur_name}
                   /\ attempts' = Settled("rejected")
                   /\ pc' = "loop"
                   /\ UNCHANGED <<interrupted, dirVars, escaped>>
              ELSE /\ CollectRaise(r)
                   /\ UNCHANGED fsVars
    /\ UNCHANGED <<op, calls, loopVars, pi, project_url, cur_name, listVars,
                   collected_file>>
    /\ UNCHANGED <<urlVars, pomVars>>

\* line 211
CP_EnterProject ==
    /\ op = "collect_projects"
    /\ pc = "cp_enter_project"
    /\ EnterDir(DownloadsDirOf(cur_name))
    /\ pc' = "cp_revparse"
    /\ UNCHANGED <<op, calls, loopVars, pi, project_url, cur_name, listVars, fsVars,
                   collected_file, escaped, interrupted, attempts, facts>>
    /\ UNCHANGED <<urlVars, pomVars>>

\* lines 212-213: git rev-parse HEAD
CP_RevParse ==
    /\ op = "collect_projects"
    /\ pc = "cp_revparse"
    /\ \E rc \in ReturnCodes :
          IF rc = 0
          THEN /\ LeaveDir
               /\ pc' = "cp_dump"
               /\ UNCHANGED <<attempts, interrupted, escaped>>
          ELSE CollectRaise("RuntimeError")
    /\ facts' = IF pc' = "cp_dump" THEN facts ELSE NoFacts
    /\ UNCHANGED <<op, calls, loopVars, pi, project_url, cur_name, listVars, fsVars,
                   collected_file>>
    /\ UNCHANGED <<urlVars, pomVars>>

\* lines 215-229: project.json and collector-config.json
CP_Dump ==
    /\ op = "collect_projects"
    /\ pc = "cp_dump"
    /\ results_files' = results_files \cup {<<cur_name, ProjectJson>>,
                                            <<cur_name, CollectorConfigJson>>}
    /\ facts' = [facts EXCEPT !.project_json = TRUE, !.config_json = TRUE]
    /\ pc' = "cp_java"
    /\ UNCHANGED <<op, calls, loopVars, pi, project_url, cur_name, listVars, clone,
                   results_dirs, collected_file, dirVars, escaped, interrupted, attempts>>
    /\ UNCHANGED <<urlVars, pomVars>>

\* the Java collector run without expected_return_code=0
Mutant_CP_Java_unchecked ==
    /\ op = "collect_projects"
    /\ pc = "cp_java"
    /\ \E rc \in ReturnCodes :
          /\ collected_projects_list' = Append(collected_projects_list, project_url)
          /\ collected_facts' = Append(collected_facts,
                                       [facts EXCEPT !.java_rc0 = (rc = 0)])
          /\ facts' = NoFacts
          /\ attempts' = Settled("collected")
          /\ pc' = "loop"
          /\ UNCHANGED <<interrupted, dirVars, escaped>>
    /\ UNCHANGED <<op, calls, loopVars, pi, project_url, cur_name, fsVars,
                   collected_file>>
    /\ UNCHANGED <<urlVars, pomVars>>

\* lines 231-236: the Java collector, then the append
CP_Java ==
    /\ op = "collect_projects"
    /\ pc = "cp_java"
    /\ \E rc \in ReturnCodes :
          IF rc = 0
          THEN /\ collected_projects_list' = Append(collected_projects_list, project_url)
               /\ collected_facts' = Append(collected_facts,
                                            [facts EXCEPT !.java_rc0 = TRUE])
               /\ facts' = NoFacts
               /\ attempts' = Settled("collected")
               /\ pc' = "loop"
               /\ UNCHANGED <<interrupted, dirVars, escaped>>
          ELSE /\ CollectRaise("RuntimeError")
               /\ facts' = NoFacts
               /\ UNCHANGED listVars
    /\ UNCHANGED <<op, calls, loopVars, pi, project_url, cur_name, fsVars,
                   collected_file>>
    /\ UNCHANGED <<urlVars, pomVars>>

\* the positions inside the try of collect_projects
CollectTryPcs == {"filter", "cp_begin", "cp_enter_downloads", "cp_clone", "cp_junit",
                  "cp_enter_project", "cp_revparse", "cp_dump", "cp_java"}

\* Ctrl-C while an entry is handled: the loop spends its time inside the
\* try, waiting for urlopen, git and the Java collector
CollectKeyboardInterrupt ==
    /\ op = "collect_projects"
    /\ pc \in CollectTryPcs
    /\ CollectRaise("KeyboardInterrupt")
    /\ facts' = NoFacts
    /\ UNCHANGED <<op, calls, loopVars, pi, project_url, cur_name, listVars, fsVars,
                   collected_file>>
    /\ UNCHANGED <<urlVars, pomVars>>

\* line 185
CollectProjectsDump ==
    /\ op = "collect_projects"
    /\ pc = "dump"
    /\ collected_file' = collected_projects_list
    /\ pc' = "idle"
    /\ UNCHANGED <<op, calls, loopVars, pi, project_url, cur_name, listVars, fsVars,
                   dirVars, escaped, interrupted, attempts, facts>>
    /\ UNCHANGED <<urlVars, pomVars>>

----------------------------------------------------------------------------
(* download_projects *)

\* download_projects lines 135-139: what follows an exception.  The handler
\* of "except Exception" formats project_url into its log message; when no
\* assignment has reached that local variable the handler itself raises
\* UnboundLocalError, which leaves download_projects.
download_projects_except(exc, url) ==
    IF exc = "KeyboardInterrupt" THEN [pc |-> "idle", escaped |-> "none"]
    ELSE IF url = NotBound THEN [pc |-> "idle", escaped |-> "UnboundLocalError"]
    ELSE [pc |-> "dloop", escaped |-> "none"]

DownloadRaise(exc) ==
    /\ cwd' = Unwind(dir_stack, cwd)
    /\ dir_stack' = <<>>
    /\ attempts' = Settled(exc)
    /\ pc' = download_projects_except(exc, project_url).pc
    /\ escaped' = download_projects_except(exc, project_url).escaped
    /\ interrupted' = (exc = "KeyboardInterrupt")
    /\ UNCHANGED start_dir

\* line 111
StartDownloadProjects ==
    /\ pc = "idle"
    /\ calls < MaxCalls
    /\ project_list' \in DownloadLists
    /\ op' = "download_projects"
    /\ pc' = "dloop"
    /\ calls' = calls + 1
    /\ pi' = 0
    \* the arguments and locals of the call before are gone
    /\ project_urls' = <<>>
    /\ skip_collected' = FALSE
    /\ project_url' = NotBound
    /\ cur_name' = <<>>
    /\ attempts' = NoAttempts
    /\ escaped' = "none"
    /\ interrupted' = FALSE
    /\ UNCHANGED <<listVars, fsVars, collected_file, dirVars, facts>>
    /\ UNCHANGED <<urlVars, pomVars>>

\* line 112: the for statement takes the next project, or the loop is over
DownloadProjectsNext ==
    /\ op = "download_projects"
    /\ pc = "dloop"
    /\ IF pi < Len(project_list)
       THEN /\ pi' = pi + 1
            /\ cur_name' = project_list[pi + 1]
            /\ attempts' = NextAttempt(attempts)
            /\ pc' = "d_parse"
       ELSE /\ pc' = "idle"
            /\ UNCHANGED <<pi, cur_name, attempts>>
    /\ UNCHANGED <<op, calls, loopVars, project_url, listVars, fsVars, collected_file,
                   dirVars, escaped, interrupted, facts>>
    /\ UNCHANGED <<urlVars, pomVars>>

\* line 114
DP_ParseRepoName ==
    /\ op = "download_projects"
    /\ pc = "d_parse"
    /\ LET r == parse_repo_name(cur_name)
       IN  IF r.exc = "none"
           THEN /\ project_url' = r.val
                /\ pc' = "d_check"
                /\ UNCHANGED <<attempts, interrupted, dirVars, escaped>>
           ELSE /\ DownloadRaise(r.exc)
                /\ UNCHANGED project_url
    /\ UNCHANGED <<op, calls, loopVars, pi, cur_name, listVars, fsVars, collected_file,
                   facts>>
    /\ UNCHANGED <<urlVars, pomVars>>

\* lines 116-124
DP_CheckUrl ==
    /\ op = "download_projects"
    /\ pc = "d_check"
    /\ \E reach \in UrlopenOutcomes :
          IF reach = "ok"
          THEN /\ results_dirs' = results_dirs \cup {cur_name}
               /\ results_files' = {f \in results_files : f[1] # cur_name}
               /\ pc' = "d_enter_downloads"
               /\ UNCHANGED <<attempts, interrupted, dirVars, escaped>>
          ELSE IF reach = "HTTPError"
          THEN /\ attempts' = Settled("unavailable")
               /\ pc' = "dloop"
               /\ UNCHANGED <<results_dirs, results_files, interrupted, dirVars, escaped>>
          ELSE /\ DownloadRaise(reach)
               /\ UNCHANGED <<results_dirs, results_files>>
    /\ UNCHANGED <<op, calls, loopVars, pi, project_url, cur_name, listVars, clone,
                   collected_file, facts>>
    /\ UNCHANGED <<urlVars, pomVars>>

\* lines 126-127
DP_EnterDownloads ==
    /\ op = "download_projects"
    /\ pc = "d_enter_downloads"
    /\ IF clone[cur_name] = NoDir
       THEN /\ EnterDir(ReposDownloadsDir)
            /\ pc' = "d_clone"
            /\ UNCHANGED attempts
       ELSE /\ attempts' = Settled("present")
            /\ pc' = "dloop"
            /\ UNCHANGED dirVars
    /\ UNCHANGED <<op, calls, loopVars, pi, project_url, cur_name, listVars, fsVars,
                   collected_file, escaped, interrupted, facts>>
    /\ UNCHANGED <<urlVars, pomVars>>

\* lines 128-129; after a clone that returned 0 the directory is there
\* (line 130), so the warning of line 134 is not reached
DP_Clone ==
    /\ op = "download_projects"
    /\ pc = "d_clone"
    /\ \E out \in CloneOutcomes :
          /\ clone' = [clone EXCEPT ![cur_name] = out.left]
          /\ IF out.exc = "none"
             THEN /\ pc' = "d_enter_project"
                  /\ UNCHANGED <<attempts, interrupted, dirVars, escaped>>
             ELSE DownloadRaise(out.exc)
    /\ UNCHANGED <<op, calls, loopVars, pi, project_url, cur_name, listVars,
                   results_dirs, results_files, collected_file, facts>>
    /\ UNCHANGED <<urlVars, pomVars>>

\* lines 130-131: the nested change_dir
DP_EnterProject ==
    /\ op = "download_projects"
    /\ pc = "d_enter_project"
    /\ EnterDir(DownloadsDirOf(cur_name))
    /\ pc' = "d_checkout"
    /\ UNCHANGED <<op, calls, loopVars, pi, project_url, cur_name, listVars, fsVars,
                   collected_file, escaped, interrupted, attempts, facts>>
    /\ UNCHANGED <<urlVars, pomVars>>

\* line 132: git checkout {sha}, which puts that revision's pom.xml in place;
\* then both blocks end
DP_Checkout ==
    /\ op = "download_projects"
    /\ pc = "d_checkout"
    /\ \E rc \in ReturnCodes, revision \in WorkingTrees :
          IF rc = 0
          THEN /\ clone' = [clone EXCEPT ![cur_name] = revision]
               /\ cwd' = change_dir_exit(dir_stack[1],
                             change_dir_exit(dir_stack[2], cwd, FALSE), FALSE)
               /\ dir_stack' = <<>>
               /\ attempts' = Settled("downloaded")
               /\ pc' = "dloop"
               /\ UNCHANGED <<start_dir, interrupted, escaped>>
          ELSE /\ DownloadRaise("RuntimeError")
               /\ UNCHANGED clone
    /\ UNCHANGED <<op, calls, loopVars, pi, project_url, cur_name, listVars,
                   results_dirs, results_files, collected_file, facts>>
    /\ UNCHANGED <<urlVars, pomVars>>

\* the positions inside the try of download_projects
DownloadTryPcs == {"d_parse", "d_check", "d_enter_downloads", "d_clone",
                   "d_enter_project", "d_checkout"}

\* Ctrl-C while a project is handled, inside the try
DownloadKeyboardInterrupt ==
    /\ op = "download_projects"
    /\ pc \in DownloadTryPcs
    /\ DownloadRaise("KeyboardInterrupt")
    /\ UNCHANGED <<op, calls, loopVars, pi, project_url, cur_name, listVars, fsVars,
                   collected_file, facts>>
    /\ UNCHANGED <<urlVars, pomVars>>

----------------------------------------------------------------------------
(* The collector as a whole *)

InitCollect ==
    /\ IdleUrl
    /\ IdlePom
    /\ InitCollector
    /\ clone \in [ProjectNames -> {NoDir, "junit4"}]
    /\ results_dirs = {}
    /\ results_files = {}
    /\ start_dir \in {Home, ReposDownloadsDir}
    /\ cwd = start_dir

NextCollect ==
    \/ StartCollectProjects
    \/ CollectProjectsNext
    \/ CollectProjectsFilter
    \/ CP_Begin
    \/ CP_EnterDownloads
    \/ CP_Clone
    \/ CP_CheckJunit
    \/ CP_EnterProject
    \/ CP_RevParse
    \/ CP_Dump
    \/ CP_Java
    \/ CollectKeyboardInterrupt
    \/ CollectProjectsDump
    \/ StartDownloadProjects
    \/ DownloadProjectsNext
    \/ DP_ParseRepoName
    \/ DP_CheckUrl
    \/ DP_EnterDownloads
    \/ DP_Clone
    \/ DP_EnterProject
    \/ DP_Checkout
    \/ DownloadKeyboardInterrupt

SpecCollect == InitCollect /\ [][NextCollect]_vars

----------------------------------------------------------------------------
(* Claims about the collector *)

LastOutcome == attempts.last

\* C6: in download_projects a failure on one project (any exception but
\* KeyboardInterrupt, a project name parse_repo_name cannot split included)
\* is logged and the loop goes on: every later entry is attempted and
\* download_projects raises nothing.
C6_DownloadLogsAndContinues ==
    (op = "download_projects" /\ pc = "idle" /\ ~interrupted) =>
        /\ escaped = "none"
        /\ pi = Len(project_list)

C8_WorkingDirectoryRestored ==
    dir_stack = <<>> => cwd = start_dir

\* download_projects ended after a checkout failed inside the nested blocks;
\* the process is back where it started, which is not the home directory
C8_Witness ==
    /\ op = "download_projects"
    /\ pc = "idle"
    /\ LastOutcome = "RuntimeError"
    /\ cur_name \in ProjectNames
    /\ clone[cur_name] \in WorkingTrees
    /\ start_dir = ReposDownloadsDir
    /\ cwd = start_dir
    /\ dir_stack = <<>>

\* everything collect_project does before the append, done
AllFacts == [clone_exists |-> TRUE, junit |-> "True", project_json |-> TRUE,
             config_json |-> TRUE, java_rc0 |-> TRUE]

\* the project name collect_projects derives from a URL it accepts
NameOfUrl(url) == LET ur == parse_github_url(url) IN ur[1] \o <<"_">> \o ur[2]

\* C9: a URL is in collected_projects_list only if its clone exists,
\* check_junit returned true, project.json and collector-config.json were
\* written and the Java collector ended with return code 0; a project the
\* version gate rejects is not in the list and has lost its downloads and
\* its results directory.
C9_CollectedOnlyAfterFullRun ==
    /\ Len(collected_facts) = Len(collected_projects_list)
    /\ \A i \in 1..Len(collected_projects_list) :
          /\ collected_facts[i] = AllFacts
          /\ clone[NameOfUrl(collected_projects_list[i])] \in ClonePoms
          /\ ReadPom(clone[NameOfUrl(collected_projects_list[i])]) = "True"
    /\ (op = "collect_projects" /\ pc = "loop" /\ LastOutcome = "rejected") =>
          /\ project_url \notin Range(collected_projects_list)
          /\ clone[cur_name] = NoDir
          /\ cur_name \notin results_dirs
          /\ \A f \in results_files : f[1] # cur_name

\* a URL has just gone all the way, after a call that had collected it before
C9_Witness ==
    /\ op = "collect_projects"
    /\ pc = "loop"
    /\ calls = 2
    /\ LastOutcome = "collected"
    /\ collected_projects_list = <<project_url, project_url>>
    /\ collected_file = <<project_url>>
    /\ <<cur_name, ProjectJson>> \in results_files

----------------------------------------------------------------------------
(* Claims about the version gate *)

\* the substring of v before its first ".", all of v when it has none
MajorToken(v) ==
    LET k == CHOOSE n \in 0..Len(v) :
                 /\ ~Has(Upto(v, n), ".")
                 /\ (n = Len(v) \/ v[n + 1] = ".")
    IN  Upto(v, k)

IsInteger(tok) == tok # <<>> /\ \A i \in 1..Len(tok) : tok[i] \in Digits

\* tok is a numeral of the integer 4: a "4" after any number of zeros
IsFour(tok) ==
    /\ tok # <<>>
    /\ tok[Len(tok)] = "4"
    /\ \A i \in 1..(Len(tok) - 1) : tok[i] = "0"

\* what the junit predicate gives on a major-version token
JunitPredicate(tok) ==
    IF ~IsInteger(tok) THEN "ValueError"
    ELSE IF IsFour(tok) THEN "True" ELSE "False"

Matches(d) == d.artifactId \in REQUIREMENTS_keys

MatchingDeps == {i \in 1..Len(pom.deps) : Matches(pom.deps[i])}

\* C4: check_junit decides on the first dependency, in document order, whose
\* artifactId is a key of REQUIREMENTS: the result is the key's predicate on
\* the version's substring before the first "." (junit: true iff that token
\* is the integer 4); later dependencies are never consulted; the result is
\* false when no dependency matches.  (Stated for the documents whose
\* dependencies, as far as the scan goes, have the children it reads; C5 is
\* about the others.)
C4_FirstMatchDecides ==
    (ppc = "done" /\ pom.wellformed) =>
        IF MatchingDeps = {}
        THEN (\A i \in 1..Len(pom.deps) : pom.deps[i].artifactId # AbsentElem)
                 => junit_result = "False"
        ELSE LET i == Min(MatchingDeps)
             IN  (/\ \A j \in 1..(i - 1) : pom.deps[j].artifactId # AbsentElem
                  /\ pom.deps[i].version \notin {AbsentElem, NoText})
                     => junit_result = JunitPredicate(MajorToken(pom.deps[i].version))

\* junit with a major version other than 4 followed by junit 4: the first
\* one decided, the answer is false
C4_Witness ==
    /\ ppc = "done"
    /\ pom.wellformed
    /\ Len(pom.deps) = 2
    /\ Matches(pom.deps[1]) /\ Matches(pom.deps[2])
    /\ pom.deps[1].version \notin {AbsentElem, NoText}
    /\ pom.deps[2].version \notin {AbsentElem, NoText}
    /\ Has(pom.deps[1].version, ".")
    /\ JunitPredicate(MajorToken(pom.deps[1].version)) = "False"
    /\ JunitPredicate(MajorToken(pom.deps[2].version)) = "True"
    /\ junit_result = "False"

\* a dependency without its artifactId child, or one that matches a key and
\* has no version child
MissingChild(d) ==
    \/ d.artifactId = AbsentElem
    \/ Matches(d) /\ d.version = AbsentElem

\* C5 as stated: check_junit fails, instead of returning a boolean, when the
\* document is malformed or a child element is missing on a dependency that
\* matches a key; a missing child is never a non-match or false.
C5_MissingChildFails_AsStated ==
    (ppc = "done" /\ (~pom.wellformed
                      \/ \E i \in 1..Len(pom.deps) : MissingChild(pom.deps[i])))
        => junit_result \notin {"True", "False"}

\* C5 as amended: ParseError on a malformed document; AttributeError when a
\* dependency with a missing child has no matching dependency before it (the
\* scan stops at the first match and never sees what comes after it).
C5_MissingChildFails ==
    ppc = "done" =>
        /\ ~pom.wellformed => junit_result = "ParseError"
        /\ (/\ pom.wellformed
            /\ \E i \in 1..Len(pom.deps) :
                  /\ MissingChild(pom.deps[i])
                  /\ \A j \in 1..(i - 1) : ~Matches(pom.deps[j]))
               => junit_result = "AttributeError"

\* an unrelated dependency, then junit without a version child: the call
\* raised
C5_Witness ==
    /\ ppc = "done"
    /\ pom.wellformed
    /\ Len(pom.deps) = 2
    /\ pom.deps[1].artifactId = Hamcrest
    /\ Matches(pom.deps[2])
    /\ pom.deps[2].version = AbsentElem
    /\ junit_result = "AttributeError"

----------------------------------------------------------------------------
(* Claims about the URL recognizer *)

\* the string is https://github.com/<user>/<repo>, with or without ".git",
\* <user> and <repo> each one non-empty path segment
IsRepoUrl(s) ==
    /\ StartsWith(s, GH)
    /\ LET t == From(s, Len(GH))
           i == IndexOf(t, "/", 1)
       IN  /\ i > 1
           /\ i < Len(t)
           /\ ~Has(From(t, i), "/")

Parsed == upc \in {"parsed", "pom"}

\* C1: parse_github_url accepts a string only when the whole string is
\* https://github.com/<user>/<repo>, optionally followed by ".git", with
\* <user> and <repo> single path segments; everything else gives None.
C1_OnlyRepoUrlsAccepted ==
    (Parsed /\ user_repo # None) => IsRepoUrl(github_url)

\* the case C2 is about: a URL read from the file, built from a non-empty
\* user and a non-empty repo without "/", the repo not ending in ".git"
C2_Case ==
    /\ Parsed
    /\ owner # <<>> /\ repo # <<>>
    /\ ~Has(owner, "/") /\ ~Has(repo, "/")
    /\ ~EndsWith(repo, DotGit)
    /\ github_url \in {GH \o owner \o <<"/">> \o repo,
                       GH \o owner \o <<"/">> \o repo \o DotGit}

\* C2 as stated: for every non-empty u and r without "/" (r not ending in
\* ".git"), both https://github.com/u/r.git and https://github.com/u/r
\* parse to (u, r).
C2_SuffixStripped_AsStated ==
    C2_Case => user_repo = <<owner, repo>>

\* C2 as amended: the same, for every r that also holds no line feed.
C2_SuffixStripped ==
    (C2_Case /\ ~Has(repo, NL)) => user_repo = <<owner, repo>>

\* a URL with the ".git" suffix, a dot inside the repo name and a line feed
\* inside the user name was parsed to (u, r)
C2_Witness ==
    /\ C2_Case
    /\ github_url = GH \o owner \o <<"/">> \o repo \o DotGit
    /\ Has(repo, ".")
    /\ Has(owner, NL)
    /\ user_repo = <<owner, repo>>

\* the case C3 is about: the URL came from the project name owner_repo,
\* neither part holding "_" or "/"
C3_Case ==
    /\ Parsed
    /\ project_name = owner \o <<"_">> \o repo
    /\ ~Has(owner, "_") /\ ~Has(owner, "/")
    /\ ~Has(repo, "_") /\ ~Has(repo, "/")

\* C3 as stated: for any owner/repo pair with no underscore or slash,
\* owner_repo -> parse_repo_name -> parse_github_url gives (owner, repo).
C3_RoundTrip_AsStated ==
    C3_Case => user_repo = <<owner, repo>>

\* C3 as amended: the same for a non-empty owner and a non-empty repo that
\* holds no line feed.
C3_RoundTrip ==
    (C3_Case /\ owner # <<>> /\ repo # <<>> /\ ~Has(repo, NL))
        => user_repo = <<owner, repo>>

\* a round trip of a pair whose repo itself ends in ".git" gave the pair back
C3_Witness ==
    /\ C3_Case
    /\ owner # <<>>
    /\ owner # repo
    /\ EndsWith(repo, DotGit)
    /\ user_repo = <<owner, repo>>

\* C10: for every accepted URL, with or without ".git", the probed
\* build-descriptor URL is https://github.com/<user>/<repo>/blob/master/pom.xml
\* for the user and repo parse_github_url returned.
C10_PomUrlOfParsedRepo ==
    upc = "pom" =>
        pom_xml_url = GH \o user_repo[1] \o <<"/">> \o user_repo[2] \o BlobMasterPom

====
